---- MODULE Spec2Model ----
(***************************************************************************)
(* Grid::createBarrier (src/src/createBarrier.cpp) as a state machine.     *)
(*                                                                         *)
(* The grid is the set of coordinates whose cell holds BARRIER; every      *)
(* other cell is EMPTY.  Selectors 0,1,2,3,4,6 and the unknown selectors   *)
(* run as one step each; selector 5 is a loop (draw the centers one by     *)
(* one, check the placement, repeat) followed by the stamping step.        *)
(***************************************************************************)
EXTENDS Integers, Sequences, FiniteSets, TLC

VARIABLES
    size,              \* <<p.sizeX, p.sizeY>>
    grid,              \* coordinates of the cells holding BARRIER
    barrierLocations,  \* Grid::barrierLocations
    barrierCenters,    \* Grid::barrierCenters
    pc,                \* "idle" | "sampling" | "aborted" | "fault"
    calls,             \* number of createBarrier calls started
    barrierType,       \* argument of the current / last call
    midX, midY,        \* case 2: the drawn midpoint
    centers,           \* case 5: std::vector<Coord> centers(numIslands)
    idx,               \* case 5: index of the next center to draw
    placementValid,    \* case 5: loop flag
    rejected,          \* history: a sampling round of this call was rejected
    setLog,            \* history: coordinates passed to grid.set in this call
    centerLog,         \* history: coordinates pushed to barrierCenters in this call
    grid0              \* history: the grid when this call started

vars == <<size, grid, barrierLocations, barrierCenters, pc, calls, barrierType,
          midX, midY, centers, idx, placementValid, rejected, setLog,
          centerLog, grid0>>

--------------------------------------------------------------------------
(* Bounds of the exploration *)

MaxCalls == 2        \* createBarrier calls per behaviour
MaxSelector == 7     \* selectors 0..MaxSelector are tried
ExtraDraws == 2      \* case 5: draws tried for the last island besides its slot

\* grid sizes explored by Spec
Sizes == { <<100, 100>>, <<61, 63>> }

\* grid sizes explored by Spec5 (selector 5 alone); the last three are too
\* small for 12 islands
Sizes5 == { <<61, 49>>, <<60, 48>>, <<47, 47>>, <<36, 30>>, <<24, 24>> }

--------------------------------------------------------------------------
(* Program constants *)

blockSizeX == 2
radius == 3
margin == radius * 4
numIslands == 12
numberOfLocations == 5
spotRadius == 5

W == size[1]
H == size[2]

Min(a, b) == IF a < b THEN a ELSE b
Max(a, b) == IF a > b THEN a ELSE b

Range(s) == { s[k] : k \in DOMAIN s }

InGrid(c) == c[1] \in 0 .. (W - 1) /\ c[2] \in 0 .. (H - 1)

--------------------------------------------------------------------------
(* Collaborators *)

\* randomUint(lo, hi): any value of the inclusive range
RandomUint(lo, hi) == lo .. hi

\* the outcomes of randomUint(lo, hi) explored for case 2
Samples(lo, hi) == { v \in RandomUint(lo, hi) : v \in {lo, (lo + hi) \div 2, hi} }

\* Coord::length(): the Euclidean length, rounded down
Length(c) ==
    LET d2 == c[1] * c[1] + c[2] * c[2]
        Abs(v) == IF v < 0 THEN 0 - v ELSE v
    IN  CHOOSE r \in 0 .. (Abs(c[1]) + Abs(c[2])) :
            r * r <= d2 /\ d2 < (r + 1) * (r + 1)

\* grid.set(loc, BARRIER) for every in-grid coordinate of cells
\* faulty variant: the store resets the rest of the grid
GridSetKeepNone(g, cells) == { c \in Range(cells) : InGrid(c) }
GridSet(g, cells) == g \cup { c \in Range(cells) : InGrid(c) }

\* the loop nest of drawBox: x outer, y inner, both ends inclusive
DrawBox(minX, minY, maxX, maxY) ==
    LET w == maxX - minX + 1
        h == maxY - minY + 1
    IN  IF w <= 0 \/ h <= 0 THEN << >>
        ELSE [ k \in 1 .. (w * h) |->
                 << minX + ((k - 1) \div h), minY + ((k - 1) % h) >> ]

\* visitNeighborhood(loc, r, f): the grid cells within distance r of loc
VisitNeighborhood(loc, r) ==
    LET box == DrawBox(Max(0, loc[1] - r), Max(0, loc[2] - r),
                       Min(W - 1, loc[1] + r), Min(H - 1, loc[2] + r))
        Near(c) == (c[1] - loc[1]) * (c[1] - loc[1])
                     + (c[2] - loc[2]) * (c[2] - loc[2]) <= r * r
    IN  SelectSeq(box, Near)

--------------------------------------------------------------------------
(* Geometry of the cases *)

\* case 1: vertical bar in constant location
Case1Cells ==
    LET minX == W \div 2
        maxX == minX + 1
        minY == H \div 4
        maxY == minY + H \div 2
    IN  DrawBox(minX, minY, maxX, maxY)

\* case 2: vertical bar around the drawn midpoint
Case2Cells(mx, my) ==
    LET minX == mx - 1
        maxX == mx + 1
        minY == my - H \div 4
        maxY == my + H \div 4
    IN  DrawBox(minX, minY, maxX, maxY)

\* case 3: five blocks staggered
Case3Cells ==
    LET blockSizeY == W \div 3
        xa == W \div 4 - blockSizeX \div 2
        ya == H \div 4 - blockSizeY \div 2
        xb == xa + W \div 2
        yb == ya + H \div 2
        xc == W \div 2 - blockSizeX \div 2
        yc == H \div 2 - blockSizeY \div 2
    IN  DrawBox(xa, ya, xa + blockSizeX, ya + blockSizeY)
          \o DrawBox(xb, ya, xb + blockSizeX, ya + blockSizeY)
          \o DrawBox(xb, yb, xb + blockSizeX, yb + blockSizeY)
          \o DrawBox(xa, yb, xa + blockSizeX, yb + blockSizeY)
          \o DrawBox(xc, yc, xc + blockSizeX, yc + blockSizeY)

\* case 4: horizontal bar in constant location
\* faulty variant: one row too many
Case4CellsTall ==
    LET minX == W \div 4
        maxX == minX + W \div 2
        minY == H \div 2 + H \div 4
        maxY == minY + 3
    IN  DrawBox(minX, minY, maxX, maxY)

Case4Cells ==
    LET minX == W \div 4
        maxX == minX + W \div 2
        minY == H \div 2 + H \div 4
        maxY == minY + 2
    IN  DrawBox(minX, minY, maxX, maxY)

\* case 5: the pairwise check of the sampling loop
\* faulty variant: the flag is overwritten by every comparison, the last wins
PlacementValidLastPair(cs) ==
    ~ (Length(<< cs[numIslands - 2][1] - cs[numIslands - 1][1],
                 cs[numIslands - 2][2] - cs[numIslands - 1][2] >>) < margin)

\* faulty variant: only neighbouring indices are compared
PlacementValidAdjacent(cs) ==
    \A a \in 0 .. (numIslands - 2) :
        ~ (Length(<< cs[a][1] - cs[a + 1][1], cs[a][2] - cs[a + 1][2] >>) < margin)

PlacementValid(cs) ==
    \A a \in 0 .. (numIslands - 2) :
        \A b \in (a + 1) .. (numIslands - 1) :
            ~ (Length(<< cs[a][1] - cs[b][1], cs[a][2] - cs[b][2] >>) < margin)

\* case 5: the outcomes of randomLoc() explored for island i: the island's
\* slot on a lattice of pitch margin, and for the last island also the
\* first ExtraDraws values of lo, hi, the middle, lo+1, hi-1, ...
SlotX(i) ==
    LET cols == ((W - margin) - margin) \div margin + 1
    IN  Min(W - margin, margin + (i % cols) * margin)

SlotY(i) ==
    LET cols == ((W - margin) - margin) \div margin + 1
    IN  Min(H - margin, margin + (i \div cols) * margin)

Probes(lo, hi) ==
    LET mid == (lo + hi) \div 2
        Nth(n) == IF n = 1 THEN lo
                  ELSE IF n = 2 THEN hi
                  ELSE IF n = 3 THEN mid
                  ELSE IF n % 2 = 0 THEN lo + (n \div 2 - 1)
                  ELSE hi - (n \div 2 - 1)
    IN  { Nth(n) : n \in 1 .. ExtraDraws }

RandomLoc(i) ==
    LET free == (i = numIslands - 1)
        xs == { v \in RandomUint(margin, W - margin) :
                  v = SlotX(i) \/ (free /\ v \in Probes(margin, W - margin)) }
        ys == { v \in RandomUint(margin, H - margin) :
                  v = SlotY(i) \/ (free /\ v \in Probes(margin, H - margin)) }
    IN  xs \X ys

\* case 5: the cells visited for islands i .. numIslands-1
RECURSIVE IslandCells(_, _)
IslandCells(cs, i) ==
    IF i >= numIslands THEN << >>
    ELSE VisitNeighborhood(cs[i], radius) \o IslandCells(cs, i + 1)

\* case 6: the spot centers, n = 1 .. numberOfLocations
\* faulty variant: n runs from 0
Case6CentersFromZero ==
    LET verticalSliceSize == H \div (numberOfLocations + 1)
    IN  [ n \in 1 .. numberOfLocations |-> << W \div 2, (n - 1) * verticalSliceSize >> ]

Case6Centers ==
    LET verticalSliceSize == H \div (numberOfLocations + 1)
    IN  [ n \in 1 .. numberOfLocations |-> << W \div 2, n * verticalSliceSize >> ]

RECURSIVE SpotCells(_, _)
SpotCells(cs, n) ==
    IF n > numberOfLocations THEN << >>
    ELSE VisitNeighborhood(cs[n], spotRadius) \o SpotCells(cs, n + 1)

\* barrierLocations.clear(), barrierCenters.clear()
\* faulty variant: the clear is missing
ClearLocationsKeep(locs) == locs
ClearLocations(locs) == << >>

ClearCenters(ctrs) == << >>

\* default: assert(false)
\* faulty variant: the assertion is compiled out (NDEBUG) and the call returns
DefaultReturns == "idle"
DefaultOutcome == "aborted"

--------------------------------------------------------------------------
(* The call *)

ZeroCenters == [ i \in 0 .. (numIslands - 1) |-> << 0, 0 >> ]

Init0 ==
    /\ grid = {}
    /\ barrierLocations = << >>
    /\ barrierCenters = << >>
    /\ pc = "idle"
    /\ calls = 0
    /\ barrierType = 0
    /\ midX = 0
    /\ midY = 0
    /\ centers = ZeroCenters
    /\ idx = 0
    /\ placementValid = FALSE
    /\ rejected = FALSE
    /\ setLog = << >>
    /\ centerLog = << >>
    /\ grid0 = {}

Init == size \in Sizes /\ Init0

Init5 == size \in Sizes5 /\ Init0

\* entry of createBarrier(t); the locals of the call start afresh
Enter(t) ==
    /\ pc = "idle"
    /\ calls < MaxCalls
    /\ calls' = calls + 1
    /\ barrierType' = t
    /\ grid0' = grid
    /\ rejected' = FALSE
    /\ size' = size

NoSampling ==
    /\ centers' = ZeroCenters
    /\ idx' = 0
    /\ placementValid' = FALSE

\* index of the first coordinate of cells outside the grid, 0 if none
FirstBad(cells) ==
    IF \A k \in DOMAIN cells : InGrid(cells[k]) THEN 0
    ELSE CHOOSE k \in DOMAIN cells :
            /\ ~ InGrid(cells[k])
            /\ \A j \in 1 .. (k - 1) : InGrid(cells[j])

\* grid.set(c, BARRIER); barrierLocations.push_back(c) for each c of cells,
\* after the pushes ctrs to barrierCenters.  grid.set outside the grid is
\* an out-of-bounds store: it either is lost or ends the process.
Write(locs0, ctrs0, cells, ctrs) ==
    LET fb == FirstBad(cells)
    IN  \E fault \in (IF fb = 0 THEN {FALSE} ELSE {FALSE, TRUE}) :
            LET done == IF fault THEN SubSeq(cells, 1, fb - 1) ELSE cells
                passed == IF fault THEN SubSeq(cells, 1, fb) ELSE cells
            IN  /\ grid' = GridSet(grid, done)
                /\ barrierLocations' = locs0 \o done
                /\ barrierCenters' = ctrs0 \o ctrs
                /\ setLog' = passed
                /\ centerLog' = ctrs
                /\ pc' = IF fault THEN "fault" ELSE "idle"

Generate0 ==
    /\ Enter(0)
    /\ Write(ClearLocations(barrierLocations), ClearCenters(barrierCenters),
             << >>, << >>)
    /\ NoSampling
    /\ midX' = 0 /\ midY' = 0

Generate1 ==
    /\ Enter(1)
    /\ Write(ClearLocations(barrierLocations), ClearCenters(barrierCenters),
             Case1Cells, << >>)
    /\ NoSampling
    /\ midX' = 0 /\ midY' = 0

Generate2 ==
    /\ Enter(2)
    /\ \E mx \in Samples(W \div 10, W - W \div 10) :
       \E my \in Samples(H \div 4, H - H \div 4) :
            /\ midX' = mx
            /\ midY' = my
            /\ Write(ClearLocations(barrierLocations), ClearCenters(barrierCenters),
                     Case2Cells(mx, my), << << mx, my >> >>)
    /\ NoSampling

Generate3 ==
    /\ Enter(3)
    /\ Write(ClearLocations(barrierLocations), ClearCenters(barrierCenters),
             Case3Cells, << >>)
    /\ NoSampling
    /\ midX' = 0 /\ midY' = 0

Generate4 ==
    /\ Enter(4)
    /\ Write(ClearLocations(barrierLocations), ClearCenters(barrierCenters),
             Case4Cells, << >>)
    /\ NoSampling
    /\ midX' = 0 /\ midY' = 0

\* case 5 up to the first test of the while loop
Begin5 ==
    /\ Enter(5)
    /\ barrierLocations' = ClearLocations(barrierLocations)
    /\ barrierCenters' = ClearCenters(barrierCenters)
    /\ NoSampling
    /\ pc' = "sampling"
    /\ setLog' = << >>
    /\ centerLog' = << >>
    /\ midX' = 0 /\ midY' = 0
    /\ UNCHANGED grid

\* centers[idx] = randomLoc()
DrawCenter ==
    /\ pc = "sampling"
    /\ ~ placementValid
    /\ idx < numIslands
    /\ \E loc \in RandomLoc(idx) : centers' = [centers EXCEPT ![idx] = loc]
    /\ idx' = idx + 1
    /\ UNCHANGED <<size, grid, barrierLocations, barrierCenters, pc, calls,
                   barrierType, midX, midY, placementValid, rejected, setLog,
                   centerLog, grid0>>

\* the pairwise check that ends a sampling round
CheckPlacement ==
    /\ pc = "sampling"
    /\ ~ placementValid
    /\ idx = numIslands
    /\ placementValid' = PlacementValid(centers)
    /\ rejected' = (rejected \/ ~ PlacementValid(centers))
    /\ idx' = 0
    /\ UNCHANGED <<size, grid, barrierLocations, barrierCenters, pc, calls,
                   barrierType, midX, midY, centers, setLog, centerLog, grid0>>

\* the loop is left: record and stamp every island, return
StampIslands ==
    /\ pc = "sampling"
    /\ placementValid
    /\ Write(barrierLocations, barrierCenters, IslandCells(centers, 0),
             [ k \in 1 .. numIslands |-> centers[k - 1] ])
    /\ UNCHANGED <<size, calls, barrierType, midX, midY, centers, idx,
                   placementValid, rejected, grid0>>

Generate6 ==
    /\ Enter(6)
    /\ Write(ClearLocations(barrierLocations), ClearCenters(barrierCenters),
             SpotCells(Case6Centers, 1), Case6Centers)
    /\ NoSampling
    /\ midX' = 0 /\ midY' = 0

\* a selector without a case label
GenerateUnknown ==
    /\ \E t \in 7 .. MaxSelector : Enter(t)
    /\ barrierLocations' = ClearLocations(barrierLocations)
    /\ barrierCenters' = ClearCenters(barrierCenters)
    /\ pc' = DefaultOutcome
    /\ setLog' = << >>
    /\ centerLog' = << >>
    /\ NoSampling
    /\ midX' = 0 /\ midY' = 0
    /\ UNCHANGED grid

Next ==
    \/ Generate0
    \/ Generate1
    \/ Generate2
    \/ Generate3
    \/ Generate4
    \/ Begin5
    \/ DrawCenter
    \/ CheckPlacement
    \/ StampIslands
    \/ Generate6
    \/ GenerateUnknown

Spec == Init /\ [][Next]_vars

Next5 ==
    \/ Begin5
    \/ DrawCenter
    \/ CheckPlacement
    \/ StampIslands

Spec5 == Init5 /\ [][Next5]_vars

--------------------------------------------------------------------------
(* Properties *)

Returned == pc = "idle" /\ calls > 0

\* squared distances, computed without Length
Separated(cs) ==
    \A a \in DOMAIN cs : \A b \in DOMAIN cs :
        a < b =>
            (cs[a][1] - cs[b][1]) * (cs[a][1] - cs[b][1])
              + (cs[a][2] - cs[b][2]) * (cs[a][2] - cs[b][2]) >= margin * margin

\* twelve discs of radius margin/2 around centers margin apart are disjoint
\* and lie in a (W - margin) x (H - margin) rectangle; their area exceeds
\* 9 * margin^2, so a rectangle no larger than that admits no placement
NoRoom == (W - margin) * (H - margin) <= 9 * margin * margin

\* C1: after the first call returns on a 100 x 100 grid, for every selector
\* 0..6 and every draw, each coordinate of barrierLocations lies in
\* [0, W) x [0, H).
C1_LocationsInGrid ==
    (Returned /\ calls = 1 /\ barrierType \in 0 .. 6 /\ size = << 100, 100 >>)
        => \A k \in DOMAIN barrierLocations :
              /\ 0 <= barrierLocations[k][1] /\ barrierLocations[k][1] < W
              /\ 0 <= barrierLocations[k][2] /\ barrierLocations[k][2] < H

\* C2: when the first call returns, barrierLocations is the sequence of the
\* coordinates passed to grid.set, in order and multiplicity, and the set of
\* grid cells holding BARRIER is the set of coordinates in barrierLocations.
C2_LocationsAreGridWrites ==
    (Returned /\ calls = 1 /\ barrierType \in 0 .. 6)
        => /\ barrierLocations = setLog
           /\ grid = Range(barrierLocations)

\* C3: after any sequence of calls, barrierLocations and barrierCenters hold
\* only what the last call appended; after selector 0 both are empty.
C3_RecordsFromLastCallOnly ==
    Returned
        => /\ barrierLocations = setLog
           /\ barrierCenters = centerLog
           /\ barrierType = 0 => (barrierLocations = << >> /\ barrierCenters = << >>)

C3_Witness ==
    /\ Returned
    /\ calls >= 2
    /\ grid0 # {}
    /\ barrierType = 0
    /\ barrierLocations = << >>

C6_RowsFromThreeQuarters ==
    (Returned /\ calls = 1 /\ barrierType = 4)
        => LET cells == ((W \div 4) .. (W \div 4 + W \div 2))
                          \X (((3 * H) \div 4) .. ((3 * H) \div 4 + 2))
           IN  /\ grid = cells
               /\ Range(barrierLocations) = cells
               /\ Len(barrierLocations) = 3 * (W \div 2 + 1)

\* C6 amended: for selector 4, on a grid that contains the bar, the cells
\* marked are x in [W/4, W/4 + W/2], y in [H/2 + H/4, H/2 + H/4 + 2], each
\* recorded once: 3 * (W/2 + 1) entries (153, x in [25,75], y in [75,77]
\* for 100 x 100).
C6_RowsFromHalfPlusQuarter ==
    (Returned /\ calls = 1 /\ barrierType = 4 /\ H \div 2 + H \div 4 + 2 < H)
        => LET cells == ((W \div 4) .. (W \div 4 + W \div 2))
                          \X ((H \div 2 + H \div 4) .. (H \div 2 + H \div 4 + 2))
           IN  /\ grid = cells
               /\ Range(barrierLocations) = cells
               /\ Len(barrierLocations) = 3 * (W \div 2 + 1)
               /\ size = << 100, 100 >>
                    => /\ Len(barrierLocations) = 153
                       /\ cells = (25 .. 75) \X (75 .. 77)

C6_Witness ==
    /\ Returned
    /\ calls = 1
    /\ barrierType = 4
    /\ H % 4 = 3
    /\ Len(barrierLocations) = 3 * (W \div 2 + 1)

\* C7: for selector 3 the five blocks are 2 wide and W/3 tall, so
\* barrierLocations has 5 * 2 * (W/3) entries, and barrierCenters is empty.
C7_FiveBlocksTwoWide ==
    (Returned /\ calls = 1 /\ barrierType = 3)
        => /\ Len(barrierLocations) = 5 * 2 * (W \div 3)
           /\ barrierCenters = << >>

C9_UnknownSelectorAborts ==
    (calls > 0 /\ barrierType \notin 0 .. 6)
        => /\ pc = "aborted"
           /\ grid = grid0
           /\ setLog = << >>
           /\ barrierLocations = << >>
           /\ barrierCenters = << >>

C9_Witness ==
    /\ pc = "aborted"
    /\ barrierType = 7
    /\ calls >= 2
    /\ grid0 # {}

\* C10: a call only adds BARRIER cells: every cell that held BARRIER when the
\* call started still holds it; after a second call the grid holds the
\* cells of both calls while barrierLocations lists those of the second.
C10_GridOnlyGrows ==
    /\ calls > 0 => grid0 \subseteq grid
    /\ (Returned /\ calls >= 2)
          => /\ grid = grid0 \cup { c \in Range(barrierLocations) : InGrid(c) }
             /\ barrierLocations = setLog

C10_Witness ==
    /\ Returned
    /\ calls = 2
    /\ grid0 # {}
    /\ barrierLocations # << >>
    /\ ~ (grid0 \subseteq Range(barrierLocations))
    /\ Range(barrierLocations) \cap grid0 # {}

====
